---- MODULE Spec2Model ----
(***************************************************************************)
(* Model of the catalog scan of src/skill_agent_lnd/utils/udemy_client.py: *)
(* the matcher _match_skill, the retrying session of _create_retry_session *)
(* and the page loop of fetch_courses_for_skills, called through           *)
(* get_smart_recommendations.  Spec is one call, Spec2 two successive      *)
(* calls against the same catalog, MatchSpec a call of _match_skill alone. *)
(*                                                                         *)
(* Strings are sequences of one-character strings.  A JSON value of the    *)
(* catalog that the code reads with .get() is a record [k, s]: k says      *)
(* whether the key is absent, holds null or holds a string s.              *)
(***************************************************************************)
EXTENDS Integers, Sequences, FiniteSets, TLC

(***************************************************************************)
(* Strings                                                                 *)
(***************************************************************************)
UpperChars == <<"A","B","C","D","E","F","G","H","I","J","K","L","M",
                "N","O","P","Q","R","S","T","U","V","W","X","Y","Z">>

LowerChars == <<"a","b","c","d","e","f","g","h","i","j","k","l","m",
                "n","o","p","q","r","s","t","u","v","w","x","y","z">>

Digits == {"0","1","2","3","4","5","6","7","8","9"}

UpperSet == {UpperChars[i] : i \in DOMAIN UpperChars}

ToLower == [u \in UpperSet |-> LowerChars[CHOOSE i \in DOMAIN UpperChars : UpperChars[i] = u]]

\* str.lower() on one character
LowerChar(ch) == IF ch \in UpperSet THEN ToLower[ch] ELSE ch

\* str.lower()
Lower(s) == [i \in 1..Len(s) |-> LowerChar(s[i])]

\* the regex class \w
WordChars == UpperSet \cup {LowerChars[i] : i \in DOMAIN LowerChars} \cup Digits \cup {"_"}

IsWordChar(ch) == ch \in WordChars

\* sub occurs in s at index i
OccursAt(sub, s, i) ==
    /\ i >= 1
    /\ i + Len(sub) - 1 <= Len(s)
    /\ SubSeq(s, i, i + Len(sub) - 1) = sub

\* the Python test `sub in s`
Contains(s, sub) == \E i \in 1..(Len(s) + 1) : OccursAt(sub, s, i)

\* str.startswith
StartsWith(s, prefix) == OccursAt(prefix, s, 1)

\* str.endswith
EndsWith(s, suffix) ==
    /\ Len(suffix) <= Len(s)
    /\ OccursAt(suffix, s, Len(s) - Len(suffix) + 1)

\* the regex assertion \b before the character at index i (i in 1..Len(s)+1)
WordBoundaryAt(s, i) ==
    LET before == i - 1 >= 1 /\ i - 1 <= Len(s) /\ IsWordChar(s[i - 1])
        after  == i >= 1 /\ i <= Len(s) /\ IsWordChar(s[i])
    IN  before # after

\* re.search(r"\b" + re.escape(term) + r"\b", s)
WordSearch(term, s) ==
    \E i \in 1..(Len(s) + 1) :
        /\ OccursAt(term, s, i)
        /\ WordBoundaryAt(s, i)
        /\ WordBoundaryAt(s, i + Len(term))

(***************************************************************************)
(* Skill matcher                                                           *)
(***************************************************************************)
S_js      == <<"j","s">>
S_adobe   == <<"a","d","o","b","e">>
S_express == <<"e","x","p","r","e","s","s">>
S_nextjs  == <<"n","e","x","t","j","s">>
S_next_js == <<"n","e","x","t",".","j","s">>
S_expressjs == <<"e","x","p","r","e","s","s","j","s">>
S_vuejs   == <<"v","u","e","j","s">>
S_vue_js  == <<"v","u","e",".","j","s">>
S_angularjs == <<"a","n","g","u","l","a","r","j","s">>
S_angular == <<"a","n","g","u","l","a","r">>
S_node_js == <<"n","o","d","e",".","j","s">>
S_node    == <<"n","o","d","e">>
S_nodejs  == <<"n","o","d","e","j","s">>
S_mongodb == <<"m","o","n","g","o","d","b">>

SKILL_ALIAS_MAP ==
    (S_nextjs :> S_next_js) @@ (S_expressjs :> S_express) @@
    (S_vuejs :> S_vue_js) @@ (S_angularjs :> S_angular) @@
    (S_node_js :> S_node) @@ (S_nodejs :> S_node_js) @@
    (S_mongodb :> S_mongodb)

\* the alias looked up again on its own result
SearchTermChained(q_raw) ==
    LET once == IF q_raw \in DOMAIN SKILL_ALIAS_MAP THEN SKILL_ALIAS_MAP[q_raw] ELSE q_raw
    IN  IF once \in DOMAIN SKILL_ALIAS_MAP THEN SKILL_ALIAS_MAP[once] ELSE once

\* SKILL_ALIAS_MAP.get(q_raw, q_raw)
SearchTerm(q_raw) ==
    IF q_raw \in DOMAIN SKILL_ALIAS_MAP THEN SKILL_ALIAS_MAP[q_raw] ELSE q_raw

\* line 92 without `q_raw not in SKILL_ALIAS_MAP`
SuffixMatchAliasKeys(q_raw, t) ==
    /\ EndsWith(q_raw, S_js)
    /\ Len(q_raw) > Len(S_js)
    /\ LET base == SubSeq(q_raw, 1, Len(q_raw) - Len(S_js))
       IN  Len(base) > Len(S_js) /\ WordSearch(base, t)

\* the 'js' suffix removal: the base is tried as a whole word
SuffixMatch(q_raw, t) ==
    /\ EndsWith(q_raw, S_js)
    /\ Len(q_raw) > Len(S_js)
    /\ q_raw \notin DOMAIN SKILL_ALIAS_MAP
    /\ LET base == SubSeq(q_raw, 1, Len(q_raw) - Len(S_js))
       IN  Len(base) > Len(S_js) /\ WordSearch(base, t)

\* the exclusion of lines 80-82 left out
ExcludedNever(search_term, t) == FALSE

\* lines 80-82: "express" never matches a title that mentions "adobe"
Excluded(search_term, t) == search_term = S_express /\ Contains(t, S_adobe)

\* lines 102-105 left out, as in a matcher that falls back on search_term only
OriginalQueryFallbackNone(q_raw, search_term, t) == FALSE

\* lines 102-105: the query as typed, when the alias table changed it
OriginalQueryFallback(q_raw, search_term, t) ==
    q_raw # search_term /\ Contains(t, q_raw)

\* line 108 as a whole-word test
FinalFallbackWholeWord(search_term, t) == WordSearch(search_term, t)

\* line 108 with the operands of `in` swapped
FinalFallbackSwapped(search_term, t) == Contains(search_term, t)

\* lines 107-109
FinalFallback(search_term, t) == Contains(t, search_term)

_match_skill(query, title) ==
    LET q_raw == Lower(query)
        t == Lower(title)
        search_term == SearchTerm(q_raw)
    IN  IF Excluded(search_term, t) THEN FALSE
        ELSE IF WordSearch(search_term, t) THEN TRUE
        ELSE IF SuffixMatch(q_raw, t) THEN TRUE
        ELSE IF OriginalQueryFallback(q_raw, search_term, t) THEN TRUE
        ELSE FinalFallback(search_term, t)

(***************************************************************************)
(* JSON values of the catalog response                                     *)
(***************************************************************************)
Str(s)  == [k |-> "str", s |-> s]
Null    == [k |-> "null", s |-> <<>>]
Absent  == [k |-> "absent", s |-> <<>>]

\* dict.get(key, ""): the default replaces an absent key only, null stays null
GetOrEmpty(v) == IF v.k = "absent" THEN Str(<<>>) ELSE v

\* the "locale" field of a course: absent, not an object, or an object whose
\* "locale" key is the value code
LocaleAbsent     == [k |-> "absent", code |-> Absent]
LocaleNotDict    == [k |-> "nondict", code |-> Absent]
LocaleDict(code) == [k |-> "dict", code |-> code]

S_http  == <<"h","t","t","p">>
S_en    == <<"e","n">>
S_en_US == <<"e","n","_","U","S">>
S_EN_GB == <<"E","N","_","G","B">>
S_fr_FR == <<"f","r","_","F","R">>
S_comma == <<",", " ">>

\* the default of the parameter `language` of fetch_courses_for_skills, which
\* get_smart_recommendations never overrides
language == S_en

\* f"https://{SUBDOMAIN}.udemy.com": the subdomain stays symbolic
UrlPrefix == <<"https://", "SUBDOMAIN", ".udemy.com">>

(***************************************************************************)
(* One course of a page, as the scanner reads it                           *)
(***************************************************************************)
Course(title, locale, url, headline, instructors) ==
    [title |-> title, locale |-> locale, url |-> url,
     headline |-> headline, visible_instructors |-> instructors]

\* course_lang of lines 196-200; null is kept (its .lower() raises)
CourseLang(course) ==
    IF course.locale.k = "dict" THEN GetOrEmpty(course.locale.code)
    ELSE Str(<<>>)

\* line 202 without the two .lower()
LanguagePassesCaseSensitive(course_lang, lang) == StartsWith(course_lang, lang)

\* line 202, for a course_lang that is a string
LanguagePasses(course_lang, lang) == StartsWith(Lower(course_lang), Lower(lang))

\* lines 206-208
CourseUrl(url) ==
    IF StartsWith(url, S_http) THEN url ELSE UrlPrefix \o url

RECURSIVE Join(_)
\* ", ".join(names)
Join(names) ==
    IF Len(names) = 0 THEN <<>>
    ELSE IF Len(names) = 1 THEN names[1].s
    ELSE names[1].s \o S_comma \o Join(Tail(names))

\* the entry stored in found_courses (lines 214-219)
FoundEntry(course) ==
    [title |-> IF course.title.k = "str" THEN course.title ELSE Null,
     url |-> CourseUrl(GetOrEmpty(course.url).s),
     headline |-> course.headline,
     instructors |-> Join(course.visible_instructors)]

(***************************************************************************)
(* The skills asked for and the courses of the catalog                     *)
(***************************************************************************)
T_react == <<"R","e","a","c","t"," ","1","0","1">>
T_node  == <<"n","o","d","e",".","j","s"," ","a","p","i">>
T_both  == <<"R","e","a","c","t"," ","N","o","d","e",".","j","s">>
T_none  == <<"S","Q","L">>
S_react == <<"r","e","a","c","t">>
U_rel   == <<"/","c">>
U_abs   == <<"h","t","t","p",":","/","/","x">>
N_ann   == <<"A","n","n">>
N_bob   == <<"B","o","b">>

C_react  == Course(Str(T_react), LocaleDict(Str(S_en_US)), Str(U_rel), "h1", <<Str(N_ann)>>)
C_node   == Course(Str(T_node), LocaleDict(Str(S_en_US)), Str(U_abs), "h2", <<>>)
C_both   == Course(Str(T_both), LocaleDict(Str(S_EN_GB)), Str(U_rel), "h3",
                   <<Str(N_ann), Str(N_bob)>>)
C_french == Course(Str(T_both), LocaleDict(Str(S_fr_FR)), Str(U_rel), "h4", <<Str(N_bob)>>)
C_none   == Course(Str(T_none), LocaleDict(Str(S_en_US)), Absent, "h5", <<>>)

\* well-formed courses, combined freely into pages
GoodCourses == {C_react, C_node, C_both, C_french, C_none}

\* courses with one absent or malformed field; their titles match both skills
OddCourses ==
    {[C_both EXCEPT !.title = Null, !.headline = "b1"],
     [C_both EXCEPT !.locale = LocaleDict(Null), !.headline = "b2"],
     [C_both EXCEPT !.locale = LocaleDict(Absent), !.headline = "b3"],
     [C_both EXCEPT !.locale = LocaleAbsent, !.headline = "b4"],
     [C_both EXCEPT !.locale = LocaleNotDict, !.headline = "b5"],
     [C_both EXCEPT !.url = Null, !.headline = "b6"],
     [C_both EXCEPT !.visible_instructors = <<Str(N_ann), Null>>, !.headline = "b7"]}

\* the skills a caller asks for
SkillPool == {S_react, S_nodejs}

\* the titles of the catalog
Titles == {c.title.s : c \in GoodCourses \cup OddCourses}

\* _match_skill over the skills and titles above, computed once
MatchTable == [q \in SkillPool, t \in Titles |-> _match_skill(q, t)]

(***************************************************************************)
(* Calls of _match_skill on its own: the queries and titles tried          *)
(***************************************************************************)
Q_express     == <<"e","x","p","r","e","s","s">>
Q_Express     == <<"E","x","p","r","e","s","s">>
Q_ExpressJS   == <<"E","x","p","r","e","s","s","J","S">>
Q_NodeJS      == <<"N","o","d","e","J","S">>
Q_reactjs     == <<"r","e","a","c","t","j","s">>
Q_d3js        == <<"d","3","j","s">>
Q_golang      == <<"g","o","l","a","n","g">>
Q_cpp         == <<"c","+","+">>
Q_empty       == <<>>
Q_java        == <<"j","a","v","a">>
MT_express    == <<"C","o","m","p","l","e","t","e"," ","E","x","p","r","e","s","s",".","j","s"," ","B","o","o","t","c","a","m","p">>
MT_adobe      == <<"A","d","o","b","e"," ","E","x","p","r","e","s","s"," ","T","u","t","o","r","i","a","l">>
MT_ADOBE      == <<"A","D","O","B","E"," ","e","x","p","r","e","s","s","j","s">>
MT_expressway == <<"E","x","p","r","e","s","s","w","a","y">>
MT_next       == <<"N","e","x","t",".","j","s"," ","&"," ","R","e","a","c","t"," ","-"," ","T","h","e"," ","C","o","m","p","l","e","t","e"," ","G","u","i","d","e">>
MT_reactjs    == <<"R","e","a","c","t","J","S"," ","F","u","n","d","a","m","e","n","t","a","l","s">>
MT_react      == <<"R","e","a","c","t"," ","B","a","s","i","c","s">>
MT_python     == <<"I","n","t","r","o","d","u","c","t","i","o","n"," ","t","o"," ","P","y","t","h","o","n">>
MT_nodejs     == <<"L","e","a","r","n"," ","N","o","d","e","J","S">>
MT_node       == <<"N","o","d","e"," ","A","P","I">>
MT_comes_next == <<"W","h","a","t"," ","c","o","m","e","s"," ","n","e","x","t">>
MT_d3         == <<"D","3"," ","c","h","a","r","t","s">>
MT_vuejs      == <<"V","u","e","J","S">>
MT_angular    == <<"A","n","g","u","l","a","r"," ","i","n"," ","d","e","p","t","h">>
MT_mongo      == <<"M","o","n","g","o","D","B">>
MT_cpp        == <<"C","+","+"," ","p","r","i","m","e","r">>
MT_go         == <<"G","o">>
MT_empty      == <<>>
MT_javascript == <<"J","a","v","a","S","c","r","i","p","t"," ","B","a","s","i","c","s">>

\* queries: alias keys, queries that end in "js", mixed letter case, a query
\* with regex metacharacters, the empty query
MatchQueries ==
    {S_nextjs, S_expressjs, S_vuejs, S_angularjs, S_node_js, S_nodejs, S_mongodb,
     S_js, S_react, Q_express, Q_Express, Q_ExpressJS, Q_NodeJS, Q_reactjs,
     Q_d3js, Q_golang, Q_cpp, Q_empty, Q_java}

MatchTitles ==
    {T_both, MT_express, MT_adobe, MT_ADOBE, MT_expressway, MT_next,
     MT_reactjs, MT_react, MT_python, MT_nodejs, MT_node,
     MT_comes_next, MT_d3, MT_vuejs, MT_angular, MT_mongo,
     MT_cpp, MT_go, MT_empty, MT_javascript}

\* what lines 193-220 do with one skill and one course: the exception a
\* malformed field raises, or whether the skill is recorded
SkillOutcome(skill, course) ==
    LET title == GetOrEmpty(course.title)
        course_lang == CourseLang(course)
        course_url == GetOrEmpty(course.url)
    IN  IF title.k # "str" THEN "AttributeError"
        ELSE IF ~MatchTable[skill, title.s] THEN "nomatch"
        ELSE IF language # <<>> /\ course_lang.k # "str" THEN "AttributeError"
        ELSE IF language # <<>> /\ ~LanguagePasses(course_lang.s, language)
             THEN "filtered"
        ELSE IF course_url.k # "str" THEN "AttributeError"
        ELSE IF \E i \in DOMAIN course.visible_instructors :
                    course.visible_instructors[i].k # "str"
             THEN "TypeError"
        ELSE "found"

\* line 214 with the alias-resolved term as the key
RecordUnderSearchTerm(found, skill, entry) ==
    LET key == SearchTerm(Lower(skill))
    IN  [s \in DOMAIN found \cup {key} |-> IF s = key THEN entry ELSE found[s]]

\* found_courses[skill] = {...}
Record(found, skill, entry) ==
    [s \in DOMAIN found \cup {skill} |-> IF s = skill THEN entry ELSE found[s]]

\* the loop of lines 192-221 leaving after its first turn
ScanSkillsFirstOnly(order, course, acc) ==
    IF Len(order) = 0 THEN acc
    ELSE LET skill == Head(order)
             out == SkillOutcome(skill, course)
             tested == acc.tested \cup {skill}
         IN  IF out \in {"AttributeError", "TypeError"}
             THEN [acc EXCEPT !.tested = tested, !.exc = out]
             ELSE IF out = "found"
             THEN [acc EXCEPT !.tested = tested,
                              !.found = Record(acc.found, skill, FoundEntry(course)),
                              !.hits = acc.hits \cup {skill}]
             ELSE [acc EXCEPT !.tested = tested]

RECURSIVE ScanSkills(_, _, _)
\* the loop `for skill in remaining_skills` of lines 192-221 over one course,
\* the skills taken in the given order; acc is [found, hits, tested, exc]
ScanSkills(order, course, acc) ==
    IF Len(order) = 0 \/ acc.exc # "none" THEN acc
    ELSE LET skill == Head(order)
             out == SkillOutcome(skill, course)
             tested == acc.tested \cup {skill}
         IN  IF out \in {"AttributeError", "TypeError"}
             THEN [acc EXCEPT !.tested = tested, !.exc = out]
             ELSE IF out = "found"
             THEN ScanSkills(Tail(order), course,
                     [acc EXCEPT !.tested = tested,
                                 !.found = Record(acc.found, skill, FoundEntry(course)),
                                 !.hits = acc.hits \cup {skill}])
             ELSE ScanSkills(Tail(order), course, [acc EXCEPT !.tested = tested])

\* the orders in which a set can be iterated
Orders(S) ==
    {o \in [1..Cardinality(S) -> S] : \A x \in S : \E i \in DOMAIN o : o[i] = x}

\* line 224 left out: a skill already found stays in the search set
RemainingAfterKept(remaining, hits) == remaining

\* line 224
RemainingAfter(remaining, hits) == remaining \ hits

(***************************************************************************)
(* Retry policy of the session (_create_retry_session)                     *)
(***************************************************************************)
\* Retry(total=5): the number of retries allowed after the first attempt
RetryTotal == 5

\* a forcelist that also holds 404
status_forcelist_404 == {404, 429, 500, 502, 503, 504}

status_forcelist == {429, 500, 502, 503, 504}

\* urllib3's Retry.RETRY_AFTER_STATUS_CODES, honoured by default
\* (respect_retry_after_header is not switched off)
RETRY_AFTER_STATUS_CODES == {413, 429, 503}

\* what one GET attempt meets: a response, or a connection error / timeout
Resp(status)           == [kind |-> "response", status |-> status, retry_after |-> FALSE]
RespRetryAfter(status) == [kind |-> "response", status |-> status, retry_after |-> TRUE]
ConnError              == [kind |-> "error", status |-> 0, retry_after |-> FALSE]

\* Retry.is_retry for a GET (GET is in allowed_methods); total is the
\* number of retries still allowed
is_retry(outcome, total) ==
    \/ outcome.status \in status_forcelist
    \/ /\ total # 0
       /\ outcome.retry_after
       /\ outcome.status \in RETRY_AFTER_STATUS_CODES

\* Retry.increment followed by Retry.is_exhausted
is_exhausted(total) == total - 1 < 0

\* line 233 as `except requests.RequestException`
CaughtRequestsOnly(e) == e \in {"RetryError", "ConnectionError", "JSONDecodeError"}

\* line 233 as `except (ValueError, AttributeError, TypeError)`
CaughtValueErrorsOnly(e) == e \in {"JSONDecodeError", "AttributeError", "TypeError"}

\* `except Exception` of line 233
Caught(e) == e \in {"RetryError", "ConnectionError", "JSONDecodeError",
                    "AttributeError", "TypeError"}

Handler(e) == IF Caught(e) THEN "except" ELSE "raised"

(***************************************************************************)
(* Scanner                                                                 *)
(***************************************************************************)
MAX_PAGES == 200

\* line 164 without `and remaining_skills`
WhileCondPagesOnly(p, remaining) == p <= MAX_PAGES

\* line 164 with the cap off by one
WhileCondOffByOne(p, remaining) == p <= MAX_PAGES + 1 /\ remaining # {}

\* line 164
WhileCond(p, remaining) == p <= MAX_PAGES /\ remaining # {}

\* line 176 as a test for server errors only
StatusOkBelow500(status) == status < 500

\* line 176
StatusOk(status) == status = 200

\* line 136 with any() for all()
HasCredentialsAny(cfg) ==
    \E key \in {"ACCOUNT_ID", "SUBDOMAIN", "CLIENT_ID", "CLIENT_SECRET"} :
        cfg[key] = "set"

\* line 136
HasCredentials(cfg) ==
    \A key \in {"ACCOUNT_ID", "SUBDOMAIN", "CLIENT_ID", "CLIENT_SECRET"} :
        cfg[key] = "set"

EmptyMap == [s \in {} |-> Null]

\* lines 248-251
Recommendations(found_courses_map) ==
    [comprehensive_courses |-> <<>>, individual_courses |-> found_courses_map]

Range(seq) == {seq[i] : i \in DOMAIN seq}

(***************************************************************************)
(* The catalog server: the pages it can serve                              *)
(***************************************************************************)
\* the server answers the first n attempts for a page with `flaky` and every
\* later attempt with `final`
Script(flaky, n, final) == [flaky |-> flaky, n |-> n, final |-> final]

Steady(outcome) == Script(outcome, 0, outcome)

OutcomeAt(script, i) == IF i <= script.n THEN script.flaky ELSE script.final

\* a response body: JSON object with "results" and "next", JSON that is not
\* an object, or no JSON at all
DictBody(results, next) == [kind |-> "dict", results |-> results, next |-> next]
NotDictBody == [kind |-> "notdict", results |-> <<>>, next |-> FALSE]
NotJsonBody == [kind |-> "notjson", results |-> <<>>, next |-> FALSE]

Page(script, body) == [script |-> script, body |-> body]

OkPage(results, next) == Page(Steady(Resp(200)), DictBody(results, next))

Scripts ==
    {Steady(Resp(404)), Steady(Resp(500)), Steady(Resp(504)), Steady(ConnError),
     Steady(RespRetryAfter(413)), Steady(Resp(413)),
     Script(Resp(502), 1, Resp(200)),
     Script(Resp(429), RetryTotal, Resp(200)),
     Script(Resp(503), RetryTotal + 1, Resp(200)),
     Script(ConnError, 1, Resp(404))}

\* the most courses a finite catalog holds
MaxCourses == 2

RECURSIVE SeqsUpTo(_, _)
\* the sequences over S of length 1..n
SeqsUpTo(S, n) ==
    IF n = 0 THEN {}
    ELSE LET shorter == SeqsUpTo(S, n - 1)
         IN  {<<x>> : x \in S} \cup shorter \cup
             {Append(q, x) : q \in shorter, x \in S}

\* the skill lists a caller passes: empty, one skill, both skills in either
\* order, and lists that name a skill twice
SkillLists ==
    {<<>>, <<S_react>>, <<S_nodejs>>, <<S_react, S_nodejs>>, <<S_nodejs, S_react>>,
     <<S_react, S_react>>, <<S_nodejs, S_react, S_nodejs>>}

\* pages of well-formed courses answered at once with 200
PlainPages(n) == {OkPage(rs, nx) : rs \in SeqsUpTo(GoodCourses, n), nx \in BOOLEAN}

\* pages that deviate in one respect: a course with an odd field, alone or
\* after a well-formed course, a body of another shape, a transport script
OddPages(n) ==
    IF n = 0 THEN {}
    ELSE {OkPage(<<b>>, TRUE) : b \in OddCourses}
         \cup {Page(sc, DictBody(<<C_both>>, TRUE)) : sc \in Scripts}
         \cup {OkPage(<<>>, TRUE), Page(Steady(Resp(200)), NotDictBody),
               Page(Steady(Resp(200)), NotJsonBody)}
         \cup (IF n = 1 THEN {} ELSE {OkPage(<<C_react, b>>, TRUE) : b \in OddCourses})

\* the answer to a page number past the end of the catalog
NotFoundPage == Page(Steady(Resp(404)), DictBody(<<>>, FALSE))

\* a page of the endless catalog: one course that matches nothing, and a
\* next-page token
FillerPage == OkPage(<<C_none>>, TRUE)

PageCost(pg) == IF Len(pg.body.results) = 0 THEN 1 ELSE Len(pg.body.results)

\* the sum of PageCost over the pages of cat (no page costs more than MaxCourses)
CatalogCost(cat) ==
    Cardinality({ij \in (DOMAIN cat) \X (1..MaxCourses) : ij[2] <= PageCost(cat[ij[1]])})

\* PlainPages and OddPages for every room a finite catalog can have left
PagesFor == [room \in 1..MaxCourses |-> PlainPages(room) \cup OddPages(room)]

\* the pages the server can serve next, given the pages cat served so far: a
\* finite catalog holds at most MaxCourses courses and answers 404 past its
\* end; the endless catalog serves FillerPage for ever
Served(cat) ==
    LET room == MaxCourses - CatalogCost(cat)
    IN  IF room > 0 THEN PagesFor[room]
        ELSE IF \A i \in DOMAIN cat : cat[i] = FillerPage THEN {FillerPage}
        ELSE {NotFoundPage}

(***************************************************************************)
(* JSON texts and json.loads: the texts of the pool and what the parser    *)
(* makes of each, a value or a JSONDecodeError                             *)
(***************************************************************************)
ConfigKeys == {"account_id", "account_name", "client_id", "client_secret"}

\* the keys of the objects of the pool
DictKeys == ConfigKeys \cup {"key"}

NoMembers == [k \in DictKeys |-> Absent]

JDict(m)     == [t |-> "dict", members |-> m, items |-> <<>>, s |-> ""]
JList(items) == [t |-> "list", members |-> NoMembers, items |-> items, s |-> ""]
JString(str) == [t |-> "str", members |-> NoMembers, items |-> <<>>, s |-> str]
JNull        == [t |-> "null", members |-> NoMembers, items |-> <<>>, s |-> ""]

S_file == <<"f">>
S_env  == <<"e">>

TX_full         == "{\"account_id\": \"f\", \"account_name\": \"f\", \"client_id\": \"f\", \"client_secret\": \"f\"}"
TX_partial      == "{\"account_id\": \"f\", \"client_id\": \"f\"}"
TX_blank_secret == "{\"account_id\": \"f\", \"account_name\": \"f\", \"client_id\": \"f\", \"client_secret\": \"\"}"
TX_object       == "{\"key\": \"value\"}"
TX_list         == "[\"a\", \"b\"]"
TX_list_default == "[\"default\"]"
TX_empty_list   == "[]"
TX_string       == "\"just a string\""
TX_null         == "null"
TX_invalid      == "not valid json"
TX_blank        == ""

Returns(value) == [kind |-> "return", value |-> value, exc |-> "none"]
Raises(e)      == [kind |-> "raise", value |-> JNull, exc |-> e]

\* json.loads / json.load on the texts of the pool
JsonLoads(text) ==
    CASE text = TX_full ->
            Returns(JDict([k \in DictKeys |->
                             IF k \in ConfigKeys THEN Str(S_file) ELSE Absent]))
      [] text = TX_partial ->
            Returns(JDict([k \in DictKeys |->
                             IF k \in {"account_id", "client_id"} THEN Str(S_file)
                             ELSE Absent]))
      [] text = TX_blank_secret ->
            Returns(JDict([k \in DictKeys |->
                             IF k = "client_secret" THEN Str(<<>>)
                             ELSE IF k \in ConfigKeys THEN Str(S_file) ELSE Absent]))
      [] text = TX_object ->
            Returns(JDict([k \in DictKeys |->
                             IF k = "key" THEN Str(<<"v","a","l","u","e">>) ELSE Absent]))
      [] text = TX_list -> Returns(JList(<<"a", "b">>))
      [] text = TX_list_default -> Returns(JList(<<"default">>))
      [] text = TX_empty_list -> Returns(JList(<<>>))
      [] text = TX_string -> Returns(JString("just a string"))
      [] text = TX_null -> Returns(JNull)
      [] OTHER -> Raises("JSONDecodeError")

(***************************************************************************)
(* load_config (lines 16-49)                                               *)
(***************************************************************************)
EnvNames == {"UDEMY_ACCOUNT_ID", "UDEMY_SUBDOMAIN", "UDEMY_CLIENT_ID",
             "UDEMY_CLIENT_SECRET"}

\* os.getenv(name): None when the variable is unset, else its string
EnvValues == {Null, Str(<<>>), Str(S_env)}

Environments == [EnvNames -> EnvValues]

\* lines 19-24
env_config(env) ==
    [k \in DictKeys |->
        CASE k = "account_id" -> env["UDEMY_ACCOUNT_ID"]
          [] k = "account_name" -> env["UDEMY_SUBDOMAIN"]
          [] k = "client_id" -> env["UDEMY_CLIENT_ID"]
          [] k = "client_secret" -> env["UDEMY_CLIENT_SECRET"]
          [] OTHER -> Absent]

\* the truth value of a string or None
Truthy(v) == v.k = "str" /\ v.s # <<>>

\* line 27 with any() for all()
AllValuesAny(cfg) == \E k \in ConfigKeys : Truthy(cfg[k])

\* line 27: all(env_config.values())
AllValues(cfg) == \A k \in ConfigKeys : Truthy(cfg[k])

\* a candidate path of udemy/config.json: what stat() and open() meet there
\* and the text of the file
File(stat, open, text) == [stat |-> stat, open |-> open, text |-> text]

NoFile       == File("ENOENT", "ENOENT", TX_blank)
StatDenied   == File("EACCES", "EACCES", TX_blank)
OpenDenied   == File("ok", "EACCES", TX_blank)
FileOf(text) == File("ok", "ok", text)

FileTexts == {TX_full, TX_partial, TX_blank_secret, TX_object, TX_list, TX_null,
              TX_invalid}

FileStates == {NoFile, StatDenied, OpenDenied} \cup {FileOf(text) : text \in FileTexts}

\* Path.exists(): stat() failing with ENOENT is False; with EACCES the error
\* is re-raised (pathlib up to Python 3.13) or swallowed (os.path.exists,
\* Python 3.14)
Exists(file) ==
    CASE file.stat = "ok" -> {"True"}
      [] file.stat = "ENOENT" -> {"False"}
      [] OTHER -> {"PermissionError", "False"}

EmptyConfig == JDict(NoMembers)

\* line 44 without the isinstance test
IsDictAlways(value) == TRUE

\* line 44: isinstance(config, dict)
IsDict(value) == value.t = "dict"

\* lines 39-49 for the path chosen, exists being the outcome of line 40
TryBlock(file, exists) ==
    IF exists # "True" THEN Returns(EmptyConfig)
    ELSE IF file.open # "ok" THEN Returns(EmptyConfig)
    ELSE LET loaded == JsonLoads(file.text)
         IN  IF loaded.kind = "raise" THEN Returns(EmptyConfig)
             ELSE IF IsDict(loaded.value) THEN Returns(loaded.value)
             ELSE Returns(EmptyConfig)

\* lines 36-37: the path the try block reads, or the exception of line 36
ConfigPath(primary, cwd, exists) ==
    IF exists = "False" THEN cwd ELSE primary

\* the outcomes of load_config for an environment and the two candidate files
load_config(env, primary, cwd) ==
    IF AllValues(env_config(env)) THEN {Returns(JDict(env_config(env)))}
    ELSE UNION {IF e1 = "PermissionError"
                THEN {[kind |-> "raise", value |-> EmptyConfig, exc |-> e1]}
                ELSE {TryBlock(ConfigPath(primary, cwd, e1), e2) :
                        e2 \in Exists(ConfigPath(primary, cwd, e1))}
                : e1 \in Exists(primary)}

\* lines 53-57: _config.get(key) as ACCOUNT_ID, SUBDOMAIN, CLIENT_ID, CLIENT_SECRET
Credential(v) ==
    IF Truthy(v) THEN "set" ELSE IF v.k = "str" THEN "empty" ELSE "none"

Credentials(_config) ==
    [key \in {"ACCOUNT_ID", "SUBDOMAIN", "CLIENT_ID", "CLIENT_SECRET"} |->
        CASE key = "ACCOUNT_ID" -> Credential(_config.members["account_id"])
          [] key = "SUBDOMAIN" -> Credential(_config.members["account_name"])
          [] key = "CLIENT_ID" -> Credential(_config.members["client_id"])
          [] OTHER -> Credential(_config.members["client_secret"])]

(***************************************************************************)
(* parse_json_list_env (adk_docker_uv/utils/env_parser.py, lines 7-53)     *)
(***************************************************************************)
\* os.getenv(env_key): None when the variable is unset, else its text
Unset       == [set |-> FALSE, text |-> ""]
SetTo(text) == [set |-> TRUE, text |-> text]

ListTexts == {TX_list, TX_list_default, TX_empty_list, TX_object, TX_string, TX_null,
              TX_invalid, TX_blank}

EnvSettings == {Unset} \cup {SetTo(text) : text \in ListTexts}

\* lines 34 and 46: isinstance(value, list)
IsList(value) == value.t = "list"

\* line 50 catching the parse error only
EnvErrorCaughtDecodeOnly(e) == e = "JSONDecodeError"

\* line 50: except (json.JSONDecodeError, ValueError)
EnvErrorCaught(e) == e \in {"JSONDecodeError", "ValueError"}

\* lines 44-53: the variable is set
ParseEnv(env_text, default_value) ==
    LET loaded == JsonLoads(env_text)
        e == IF loaded.kind = "raise" THEN loaded.exc
             ELSE IF ~IsList(loaded.value) THEN "ValueError"
             ELSE "none"
    IN  IF e = "none" THEN Returns(loaded.value)
        ELSE IF EnvErrorCaught(e) THEN Returns(default_value)
        ELSE Raises(e)

parse_json_list_env(env_value, default) ==
    LET loaded == JsonLoads(default)
    IN  IF loaded.kind = "raise" THEN Raises("ValueError")
        ELSE IF ~IsList(loaded.value) THEN Raises("ValueError")
        ELSE IF ~env_value.set THEN Returns(loaded.value)
        ELSE ParseEnv(env_value.text, loaded.value)

(***************************************************************************)
(* State                                                                   *)
(***************************************************************************)
VARIABLES
    config,            \* ACCOUNT_ID, SUBDOMAIN, CLIENT_ID, CLIENT_SECRET (lines 54-57)
    catalog,           \* the pages the server has served so far, by page number
    ncalls,            \* the number of calls of get_smart_recommendations
    pc,                \* where each call stands
    missing_skills,    \* the argument of each call
    remaining_skills,  \* locals of fetch_courses_for_skills, per call
    found_courses,
    session,
    page,
    retries_total,     \* Retry.total of the request under way
    response,
    course_i,          \* index in `results` of the course of the for loop
    exc,               \* the exception raised in the call, or "none"
    result,            \* what the call returned
    get_log,           \* history: the page numbers passed to session.get
    statuses,          \* history: the outcomes of the attempts of the last session.get
    scanned,           \* history: <<page, index>> of the courses examined
    tested,            \* history: the skills tested against the last course examined
    match_call,        \* a call of _match_skill on its own: arguments, locals, return value
    load_call,         \* a call of load_config: environment, files, outcome
    parse_call,        \* a call of parse_json_list_env: arguments, outcome
    tool_call          \* a call of the tool search_udemy_courses

vars == <<load_call, parse_call, tool_call, match_call, config, catalog, ncalls, pc, missing_skills, remaining_skills,
          found_courses, session, page, retries_total, response, course_i,
          exc, result, get_log, statuses, scanned, tested>>

Calls == 1..ncalls

NoResponse == [status |-> 0, body |-> NotJsonBody]
NoResult == [comprehensive_courses |-> <<"unset">>, individual_courses |-> EmptyMap]

CredentialValues == {"set", "empty", "none"}

Configs == [{"ACCOUNT_ID", "SUBDOMAIN", "CLIENT_ID", "CLIENT_SECRET"} -> CredentialValues]

\* n calls not yet made, against a server that has served the pages cat
InitCallsOn(n, cat) ==
    /\ ncalls = n
    /\ catalog = cat
    /\ pc = [c \in 1..n |-> "idle"]
    /\ missing_skills = [c \in 1..n |-> <<>>]
    /\ remaining_skills = [c \in 1..n |-> {}]
    /\ found_courses = [c \in 1..n |-> EmptyMap]
    /\ session = [c \in 1..n |-> FALSE]
    /\ page = [c \in 1..n |-> 0]
    /\ retries_total = [c \in 1..n |-> 0]
    /\ response = [c \in 1..n |-> NoResponse]
    /\ course_i = [c \in 1..n |-> 0]
    /\ exc = [c \in 1..n |-> "none"]
    /\ result = [c \in 1..n |-> NoResult]
    /\ get_log = [c \in 1..n |-> <<>>]
    /\ statuses = [c \in 1..n |-> <<>>]
    /\ scanned = [c \in 1..n |-> <<>>]
    /\ tested = [c \in 1..n |-> {}]

InitCalls(n) == InitCallsOn(n, <<>>)

\* no call of _match_skill on its own
NoMatchCall ==
    [pc |-> "off", query |-> <<>>, title |-> <<>>, q_raw |-> <<>>,
     search_term |-> <<>>, value |-> FALSE]

\* no call of load_config, parse_json_list_env or the tool
NoLoadCall ==
    [pc |-> "off", env |-> [n \in EnvNames |-> Null], primary |-> NoFile,
     cwd |-> NoFile, outcome |-> Returns(EmptyConfig)]

NoParseCall ==
    [pc |-> "off", env_value |-> Unset, default |-> TX_blank,
     outcome |-> Returns(JNull)]

\* the dictionary the tool returns: the recommendations, or the "error" key
ToolDict(recommendations) == [error |-> "absent", recommendations |-> recommendations]

\* tools.py line 65
ErrorDict ==
    [error |-> "Failed to fetch course recommendations.", recommendations |-> NoResult]

NoToolCall ==
    [pc |-> "off", arg |-> "list", value |-> ToolDict(NoResult)]

NoOtherCalls ==
    /\ match_call = NoMatchCall
    /\ load_call = NoLoadCall
    /\ parse_call = NoParseCall
    /\ tool_call = NoToolCall

Init ==
    /\ config \in Configs
    /\ InitCalls(1)
    /\ NoOtherCalls

(***************************************************************************)
(* Actions                                                                 *)
(***************************************************************************)
\* line 153 with a set that outlives the call
StartRemainingCarried(c, skills) ==
    IF c > 1 THEN remaining_skills[c - 1] ELSE Range(skills)

\* line 153: remaining_skills = set(skills)
StartRemaining(c, skills) == Range(skills)

\* get_smart_recommendations is called (lines 243-246) and enters
\* fetch_courses_for_skills (lines 136-161)
CallWith(c, skills) ==
    /\ pc[c] = "idle"
    /\ missing_skills' = [missing_skills EXCEPT ![c] = skills]
    /\ IF ~HasCredentials(config)
       THEN /\ result' = [result EXCEPT ![c] = Recommendations(EmptyMap)]
            /\ pc' = [pc EXCEPT ![c] = "done"]
            /\ UNCHANGED <<remaining_skills, session, page>>
       ELSE /\ remaining_skills' = [remaining_skills EXCEPT
                                      ![c] = StartRemaining(c, skills)]
            /\ session' = [session EXCEPT ![c] = TRUE]
            /\ page' = [page EXCEPT ![c] = 1]
            /\ pc' = [pc EXCEPT ![c] = "while"]
            /\ UNCHANGED result
    /\ UNCHANGED <<load_call, parse_call, tool_call, match_call, config, catalog, ncalls, found_courses, retries_total, response,
                   course_i, exc, get_log, statuses, scanned, tested>>

Call(c) == \E skills \in SkillLists : CallWith(c, skills)

\* the loop test of line 164
WhileTest(c) ==
    /\ pc[c] = "while"
    /\ IF WhileCond(page[c], remaining_skills[c])
       THEN /\ pc' = [pc EXCEPT ![c] = "get"]
            /\ retries_total' = [retries_total EXCEPT ![c] = RetryTotal]
            /\ statuses' = [statuses EXCEPT ![c] = <<>>]
            /\ response' = [response EXCEPT ![c] = NoResponse]
       ELSE /\ pc' = [pc EXCEPT ![c] = "return"]
            /\ UNCHANGED <<retries_total, statuses, response>>
    /\ UNCHANGED <<load_call, parse_call, tool_call, match_call, config, catalog, ncalls, missing_skills, remaining_skills,
                   found_courses, session, page, course_i, exc, result, get_log,
                   scanned, tested>>

\* one GET attempt of session.get (line 174) and what the retry policy makes
\* of its outcome: another attempt, an exception, or the response
Attempt(c, pg) ==
    LET outcome == OutcomeAt(pg.script, Len(statuses[c]) + 1)
        retry == outcome.kind = "error" \/ is_retry(outcome, retries_total[c])
    IN  /\ statuses' = [statuses EXCEPT ![c] = Append(@, outcome)]
        /\ get_log' = IF Len(statuses[c]) = 0
                      THEN [get_log EXCEPT ![c] = Append(@, page[c])]
                      ELSE get_log
        /\ IF retry /\ is_exhausted(retries_total[c])
           THEN LET e == IF outcome.kind = "error" THEN "ConnectionError"
                         ELSE "RetryError"
                IN  /\ exc' = [exc EXCEPT ![c] = e]
                    /\ pc' = [pc EXCEPT ![c] = Handler(e)]
                    /\ UNCHANGED <<retries_total, response>>
           ELSE IF retry
           THEN /\ retries_total' = [retries_total EXCEPT ![c] = @ - 1]
                /\ UNCHANGED <<pc, exc, response>>
           ELSE /\ response' = [response EXCEPT
                                  ![c] = [status |-> outcome.status, body |-> pg.body]]
                /\ pc' = [pc EXCEPT ![c] = "response"]
                /\ UNCHANGED <<retries_total, exc>>

SessionGet(c) ==
    /\ pc[c] = "get"
    /\ IF page[c] <= Len(catalog)
       THEN /\ Attempt(c, catalog[page[c]])
            /\ UNCHANGED catalog
       ELSE /\ page[c] = Len(catalog) + 1
            /\ \E pg \in Served(catalog) :
                /\ catalog' = Append(catalog, pg)
                /\ Attempt(c, pg)
    /\ UNCHANGED <<load_call, parse_call, tool_call, match_call, config, ncalls, missing_skills, remaining_skills, found_courses,
                   session, page, course_i, result, scanned, tested>>

\* lines 176-184: the status check, response.json() and the results list
HandleResponse(c) ==
    /\ pc[c] = "response"
    /\ LET body == response[c].body
       IN  IF ~StatusOk(response[c].status)
           THEN /\ pc' = [pc EXCEPT ![c] = "return"]
                /\ UNCHANGED <<exc, course_i>>
           ELSE IF body.kind # "dict"
           THEN LET e == IF body.kind = "notjson" THEN "JSONDecodeError"
                         ELSE "AttributeError"
                IN  /\ exc' = [exc EXCEPT ![c] = e]
                    /\ pc' = [pc EXCEPT ![c] = Handler(e)]
                    /\ UNCHANGED course_i
           ELSE IF Len(body.results) = 0
           THEN /\ pc' = [pc EXCEPT ![c] = "return"]
                /\ UNCHANGED <<exc, course_i>>
           ELSE /\ pc' = [pc EXCEPT ![c] = "course"]
                /\ course_i' = [course_i EXCEPT ![c] = 1]
                /\ UNCHANGED exc
    /\ UNCHANGED <<load_call, parse_call, tool_call, match_call, config, catalog, ncalls, missing_skills, remaining_skills,
                   found_courses, session, page, retries_total, response, result,
                   get_log, statuses, scanned, tested>>

\* one turn of the loop of line 187: every remaining skill is tested against
\* the course (lines 188-221), then lines 224-226
ProcessCourse(c) ==
    /\ pc[c] = "course"
    /\ LET results == response[c].body.results
           course == results[course_i[c]]
       IN  \E order \in Orders(remaining_skills[c]) :
            LET r == ScanSkills(order, course,
                        [found |-> found_courses[c], hits |-> {},
                         tested |-> {}, exc |-> "none"])
                left == RemainingAfter(remaining_skills[c], r.hits)
            IN  /\ found_courses' = [found_courses EXCEPT ![c] = r.found]
                /\ tested' = [tested EXCEPT ![c] = r.tested]
                /\ scanned' = [scanned EXCEPT ![c] = Append(@, <<page[c], course_i[c]>>)]
                /\ IF r.exc # "none"
                   THEN /\ exc' = [exc EXCEPT ![c] = r.exc]
                        /\ pc' = [pc EXCEPT ![c] = Handler(r.exc)]
                        /\ UNCHANGED <<remaining_skills, course_i>>
                   ELSE /\ remaining_skills' = [remaining_skills EXCEPT ![c] = left]
                        /\ UNCHANGED exc
                        /\ IF left # {} /\ course_i[c] < Len(results)
                           THEN /\ course_i' = [course_i EXCEPT ![c] = @ + 1]
                                /\ UNCHANGED pc
                           ELSE /\ pc' = [pc EXCEPT ![c] = "next"]
                                /\ UNCHANGED course_i
    /\ UNCHANGED <<load_call, parse_call, tool_call, match_call, config, catalog, ncalls, missing_skills, session, page,
                   retries_total, response, result, get_log, statuses>>

\* line 228 ignoring the token
NoNextPageNever(body) == FALSE

\* line 228: `not data.get("next")`
NoNextPage(body) == ~body.next

\* line 231 on a page counter that all calls share
PageAfterShared(c) == [k \in DOMAIN page |-> page[c] + 1]

\* line 231: page += 1 on the local of the call
PageAfter(c) == [page EXCEPT ![c] = @ + 1]

\* lines 228-231
NextPage(c) ==
    /\ pc[c] = "next"
    /\ IF NoNextPage(response[c].body)
       THEN /\ pc' = [pc EXCEPT ![c] = "return"]
            /\ UNCHANGED page
       ELSE /\ page' = PageAfter(c)
            /\ pc' = [pc EXCEPT ![c] = "while"]
    /\ UNCHANGED <<load_call, parse_call, tool_call, match_call, config, catalog, ncalls, missing_skills, remaining_skills,
                   found_courses, session, retries_total, response, course_i, exc,
                   result, get_log, statuses, scanned, tested>>

\* lines 233-234
Except(c) ==
    /\ pc[c] = "except"
    /\ pc' = [pc EXCEPT ![c] = "return"]
    /\ UNCHANGED <<load_call, parse_call, tool_call, match_call, config, catalog, ncalls, missing_skills, remaining_skills,
                   found_courses, session, page, retries_total, response, course_i,
                   exc, result, get_log, statuses, scanned, tested>>

\* line 236 and lines 248-258
Return(c) ==
    /\ pc[c] = "return"
    /\ result' = [result EXCEPT ![c] = Recommendations(found_courses[c])]
    /\ pc' = [pc EXCEPT ![c] = "done"]
    /\ UNCHANGED <<load_call, parse_call, tool_call, match_call, config, catalog, ncalls, missing_skills, remaining_skills,
                   found_courses, session, page, retries_total, response, course_i,
                   exc, get_log, statuses, scanned, tested>>

Next ==
    \/ \E c \in Calls : Call(c)
    \/ \E c \in Calls : WhileTest(c)
    \/ \E c \in Calls : SessionGet(c)
    \/ \E c \in Calls : HandleResponse(c)
    \/ \E c \in Calls : ProcessCourse(c)
    \/ \E c \in Calls : NextPage(c)
    \/ \E c \in Calls : Except(c)
    \/ \E c \in Calls : Return(c)

Spec == Init /\ [][Next]_vars

\* the steps of a call that has been made
Step(c) ==
    \/ WhileTest(c)
    \/ SessionGet(c)
    \/ HandleResponse(c)
    \/ ProcessCourse(c)
    \/ NextPage(c)
    \/ Except(c)
    \/ Return(c)

\* the call is sequential code: its next statement is executed, and a request
\* that was sent returns a response or raises (timeout=15 on line 174)
FairSpec == Init /\ [][Next]_vars /\ WF_vars(\E c \in Calls : Step(c))

(***************************************************************************)
(* Two successive calls against the same catalog: the second call starts   *)
(* when the first has returned and asks for the same set of skills         *)
(***************************************************************************)
AllSet == [key \in {"ACCOUNT_ID", "SUBDOMAIN", "CLIENT_ID", "CLIENT_SECRET"} |-> "set"]

Configs2 == {AllSet, [AllSet EXCEPT !["CLIENT_SECRET"] = "none"]}

Init2 ==
    /\ config \in Configs2
    /\ InitCalls(2)
    /\ NoOtherCalls

SuccessiveCall(c) ==
    IF c = 1 THEN Call(c)
    ELSE /\ pc[c - 1] = "done"
         /\ \E skills \in SkillLists :
               /\ Range(skills) = Range(missing_skills[c - 1])
               /\ CallWith(c, skills)

Next2 ==
    \/ \E c \in Calls : SuccessiveCall(c)
    \/ \E c \in Calls : WhileTest(c)
    \/ \E c \in Calls : SessionGet(c)
    \/ \E c \in Calls : HandleResponse(c)
    \/ \E c \in Calls : ProcessCourse(c)
    \/ \E c \in Calls : NextPage(c)
    \/ \E c \in Calls : Except(c)
    \/ \E c \in Calls : Return(c)

Spec2 == Init2 /\ [][Next2]_vars

(***************************************************************************)
(* A call on a skill list, then a call on the one-element list of one of   *)
(* its skills, against the same catalog                                    *)
(***************************************************************************)
PerSkillCall(c) ==
    IF c = 1 THEN Call(c)
    ELSE /\ pc[c - 1] = "done"
         /\ \E s \in Range(missing_skills[c - 1]) : CallWith(c, <<s>>)

NextPerSkill ==
    \/ \E c \in Calls : PerSkillCall(c)
    \/ \E c \in Calls : WhileTest(c)
    \/ \E c \in Calls : SessionGet(c)
    \/ \E c \in Calls : HandleResponse(c)
    \/ \E c \in Calls : ProcessCourse(c)
    \/ \E c \in Calls : NextPage(c)
    \/ \E c \in Calls : Except(c)
    \/ \E c \in Calls : Return(c)

SpecPerSkill == Init2 /\ [][NextPerSkill]_vars

(***************************************************************************)
(* Concurrent calls: call 1 runs alone, then call 2, on the same list, and *)
(* call 3, on any list, run with their steps interleaved in every way.     *)
(* The catalog is one of a few whose pages are fixed from the start and    *)
(* end with a 404.                                                         *)
(***************************************************************************)
FirstPages ==
    {OkPage(<<C_french, C_react>>, TRUE),
     OkPage(<<C_none, C_node>>, TRUE),
     OkPage(<<C_none>>, TRUE),
     Page(Script(Resp(502), 1, Resp(200)), DictBody(<<C_both>>, TRUE))}

LastPages ==
    {OkPage(<<C_node, C_react>>, FALSE),
     OkPage(<<C_react, [C_both EXCEPT !.url = Null, !.headline = "b6"]>>, TRUE),
     OkPage(<<C_both>>, TRUE),
     Page(Steady(ConnError), DictBody(<<C_both>>, TRUE))}

ConcurrentCatalogs ==
    {<<p1, p2, NotFoundPage>> : p1 \in FirstPages, p2 \in LastPages}

InitConcurrent ==
    /\ config = AllSet
    /\ \E cat \in ConcurrentCatalogs : InitCallsOn(3, cat)
    /\ NoOtherCalls

ConcurrentCall(c) ==
    IF c = 1 THEN Call(c)
    ELSE /\ pc[1] = "done"
         /\ IF c = 2 THEN CallWith(c, missing_skills[1]) ELSE Call(c)

NextConcurrent ==
    \/ \E c \in Calls : ConcurrentCall(c)
    \/ \E c \in Calls : WhileTest(c)
    \/ \E c \in Calls : SessionGet(c)
    \/ \E c \in Calls : HandleResponse(c)
    \/ \E c \in Calls : ProcessCourse(c)
    \/ \E c \in Calls : NextPage(c)
    \/ \E c \in Calls : Except(c)
    \/ \E c \in Calls : Return(c)

SpecConcurrent == InitConcurrent /\ [][NextConcurrent]_vars

(***************************************************************************)
(* The tool search_udemy_courses (tools.py, lines 38-65) called with the   *)
(* argument the agent passes: a list of skill names, None, or a list with  *)
(* an element that cannot be hashed                                        *)
(***************************************************************************)
ToolArgs == {"list", "None", "unhashable"}

ToolInit ==
    /\ config \in Configs2
    /\ InitCalls(1)
    /\ match_call = NoMatchCall
    /\ load_call = NoLoadCall
    /\ parse_call = NoParseCall
    /\ \E arg \in ToolArgs : tool_call = [NoToolCall EXCEPT !.pc = "called", !.arg = arg]

\* get_smart_recommendations on an argument that is no list of strings:
\* set(skills) on line 153 raises TypeError, or without credentials the loop
\* of lines 254-255 does; both stand outside the try of line 163
CallMalformed(c) ==
    /\ pc[c] = "idle"
    /\ exc' = [exc EXCEPT ![c] = "TypeError"]
    /\ pc' = [pc EXCEPT ![c] = "raised"]
    /\ UNCHANGED <<load_call, parse_call, tool_call, match_call, config, catalog, ncalls,
                   missing_skills, remaining_skills, found_courses, session, page,
                   retries_total, response, course_i, result, get_log, statuses,
                   scanned, tested>>

\* tools.py line 61: the call of get_smart_recommendations(missing_skills)
ToolCallee ==
    /\ tool_call.pc = "called"
    /\ IF tool_call.arg = "list" THEN Call(1) ELSE CallMalformed(1)

\* tools.py line 63 catching the exceptions of the requests library only
ToolCaughtRequestsOnly(e) == e \in {"RetryError", "ConnectionError"}

\* tools.py line 63: except Exception
ToolCaught(e) == e \in {"RetryError", "ConnectionError", "JSONDecodeError",
                        "AttributeError", "TypeError"}

\* tools.py lines 62-65
ToolReturn ==
    /\ tool_call.pc = "called"
    /\ pc[1] \in {"done", "raised"}
    /\ tool_call' =
          IF pc[1] = "done"
          THEN [tool_call EXCEPT !.pc = "returned", !.value = ToolDict(result[1])]
          ELSE IF ToolCaught(exc[1])
          THEN [tool_call EXCEPT !.pc = "returned", !.value = ErrorDict]
          ELSE [tool_call EXCEPT !.pc = "raised"]
    /\ UNCHANGED <<load_call, parse_call, match_call, config, catalog, ncalls, pc,
                   missing_skills, remaining_skills, found_courses, session, page,
                   retries_total, response, course_i, exc, result, get_log,
                   statuses, scanned, tested>>

ToolNext ==
    \/ ToolCallee
    \/ \E c \in Calls : WhileTest(c)
    \/ \E c \in Calls : SessionGet(c)
    \/ \E c \in Calls : HandleResponse(c)
    \/ \E c \in Calls : ProcessCourse(c)
    \/ \E c \in Calls : NextPage(c)
    \/ \E c \in Calls : Except(c)
    \/ \E c \in Calls : Return(c)
    \/ ToolReturn

ToolSpec == ToolInit /\ [][ToolNext]_vars

(***************************************************************************)
(* _match_skill called on its own, for every query and title of the pools  *)
(***************************************************************************)
MatchInit ==
    /\ config = AllSet
    /\ InitCalls(0)
    /\ load_call = NoLoadCall
    /\ parse_call = NoParseCall
    /\ tool_call = NoToolCall
    /\ \E q \in MatchQueries, t \in MatchTitles :
          match_call = [NoMatchCall EXCEPT !.pc = "called", !.query = q, !.title = t]

\* lines 74-111: the call runs to its return
MatchSkill ==
    /\ match_call.pc = "called"
    /\ match_call' = [match_call EXCEPT
                        !.pc = "returned",
                        !.q_raw = Lower(match_call.query),
                        !.search_term = SearchTerm(Lower(match_call.query)),
                        !.value = _match_skill(match_call.query, match_call.title)]
    /\ UNCHANGED <<load_call, parse_call, tool_call, config, catalog, ncalls, pc,
                   missing_skills, remaining_skills,
                   found_courses, session, page, retries_total, response, course_i,
                   exc, result, get_log, statuses, scanned, tested>>

MatchNext == MatchSkill

MatchSpec == MatchInit /\ [][MatchNext]_vars

(***************************************************************************)
(* The module is imported: load_config runs for every environment and      *)
(* every state of the two candidate files, then lines 53-57 set the        *)
(* credentials                                                             *)
(***************************************************************************)
NoCredentials ==
    [key \in {"ACCOUNT_ID", "SUBDOMAIN", "CLIENT_ID", "CLIENT_SECRET"} |-> "none"]

ConfigInit ==
    /\ config = NoCredentials
    /\ InitCalls(0)
    /\ match_call = NoMatchCall
    /\ parse_call = NoParseCall
    /\ tool_call = NoToolCall
    /\ \E env \in Environments, primary \in FileStates, cwd \in FileStates :
          load_call = [NoLoadCall EXCEPT !.pc = "called", !.env = env,
                                         !.primary = primary, !.cwd = cwd]

\* line 53: _config = load_config()
LoadConfig ==
    /\ load_call.pc = "called"
    /\ \E outcome \in load_config(load_call.env, load_call.primary, load_call.cwd) :
          load_call' = [load_call EXCEPT
                          !.pc = IF outcome.kind = "raise" THEN "raised" ELSE "returned",
                          !.outcome = outcome]
    /\ UNCHANGED <<parse_call, tool_call, match_call, config, catalog, ncalls, pc,
                   missing_skills, remaining_skills, found_courses, session, page,
                   retries_total, response, course_i, exc, result, get_log,
                   statuses, scanned, tested>>

\* lines 54-57
InitCredentials ==
    /\ load_call.pc = "returned"
    /\ config' = Credentials(load_call.outcome.value)
    /\ load_call' = [load_call EXCEPT !.pc = "initialised"]
    /\ UNCHANGED <<parse_call, tool_call, match_call, catalog, ncalls, pc,
                   missing_skills, remaining_skills, found_courses, session, page,
                   retries_total, response, course_i, exc, result, get_log,
                   statuses, scanned, tested>>

ConfigNext ==
    \/ LoadConfig
    \/ InitCredentials

ConfigSpec == ConfigInit /\ [][ConfigNext]_vars

(***************************************************************************)
(* parse_json_list_env called for every setting of the variable and every  *)
(* default of the pool                                                     *)
(***************************************************************************)
ParseInit ==
    /\ config = NoCredentials
    /\ InitCalls(0)
    /\ match_call = NoMatchCall
    /\ load_call = NoLoadCall
    /\ tool_call = NoToolCall
    /\ \E env_value \in EnvSettings, default \in ListTexts :
          parse_call = [NoParseCall EXCEPT !.pc = "called", !.env_value = env_value,
                                           !.default = default]

\* lines 28-53: the call runs to its return or its raise
ParseJsonListEnv ==
    /\ parse_call.pc = "called"
    /\ LET outcome == parse_json_list_env(parse_call.env_value, parse_call.default)
       IN  parse_call' = [parse_call EXCEPT
                            !.pc = IF outcome.kind = "raise" THEN "raised"
                                   ELSE "returned",
                            !.outcome = outcome]
    /\ UNCHANGED <<load_call, tool_call, match_call, config, catalog, ncalls, pc,
                   missing_skills, remaining_skills, found_courses, session, page,
                   retries_total, response, course_i, exc, result, get_log,
                   statuses, scanned, tested>>

ParseNext == ParseJsonListEnv

ParseSpec == ParseInit /\ [][ParseNext]_vars

TypeOK ==
    /\ \A c \in Calls : pc[c] \in {"idle", "while", "get", "response", "course",
                                   "next", "except", "return", "done", "raised"}
    /\ \A c \in Calls : page[c] \in 0..(MAX_PAGES + 1)

(***************************************************************************)
(* Vocabulary of the properties                                            *)
(***************************************************************************)
\* the positions <<page, index>> of the courses of the pages served so far
Positions ==
    UNION {{<<p, i>> : i \in DOMAIN catalog[p].body.results} : p \in DOMAIN catalog}

CourseAt(pos) == catalog[pos[1]].body.results[pos[2]]

\* scan order: pages ascending, then the courses of a page in page order
Before(a, b) == a[1] < b[1] \/ (a[1] = b[1] /\ a[2] < b[2])

TitleMatches(skill, course) ==
    course.title.k = "str" /\ MatchTable[skill, course.title.s]

\* the locale code is a string that starts with the filter, letter case ignored
LocalePasses(course) ==
    /\ course.locale.k = "dict"
    /\ course.locale.code.k = "str"
    /\ StartsWith(Lower(course.locale.code.s), Lower(language))

Qualifies(skill, course) == TitleMatches(skill, course) /\ LocalePasses(course)

\* entry is the resolution made from course
Holds(entry, course) ==
    entry.headline = course.headline /\ entry.title = course.title

\* the mapping a call has accumulated or, once it returned, returned
Mapping(c) ==
    IF pc[c] = "done" THEN result[c].individual_courses ELSE found_courses[c]

Scanned(c) == Range(scanned[c])

(***************************************************************************)
(* C1: first match wins.  Every skill of the mapping holds the first       *)
(* course in scan order whose title matches the skill and whose locale     *)
(* passes the language filter; no earlier course satisfies both.           *)
(***************************************************************************)
C1_FirstMatchWins ==
    \A c \in Calls : \A s \in DOMAIN Mapping(c) :
        LET P == Positions
        IN  \E pos \in P :
                /\ Qualifies(s, CourseAt(pos))
                /\ Holds(Mapping(c)[s], CourseAt(pos))
                /\ \A q \in P : Before(q, pos) => ~Qualifies(s, CourseAt(q))

\* a call returned a skill for which two different courses qualify
C1_Witness ==
    \E c \in Calls : pc[c] = "done" /\ exc[c] = "none" /\
        \E s \in DOMAIN result[c].individual_courses :
            \E a, b \in Positions :
                /\ Before(a, b)
                /\ Qualifies(s, CourseAt(a)) /\ Qualifies(s, CourseAt(b))
                /\ CourseAt(a).headline # CourseAt(b).headline
                /\ b \in Scanned(c)

(***************************************************************************)
(* C2: a skill recorded in found_courses is out of remaining_skills before *)
(* the next course is examined, is tested against no later course, and     *)
(* its course is never overwritten.                                        *)
(***************************************************************************)
C2_NeverRevisited ==
    [][\A c \in Calls :
        /\ \A s \in DOMAIN found_courses'[c] : s \notin remaining_skills'[c]
        /\ \A s \in DOMAIN found_courses[c] :
            /\ s \in DOMAIN found_courses'[c]
            /\ found_courses'[c][s] = found_courses[c][s]
            /\ scanned'[c] # scanned[c] => s \notin tested'[c]]_vars

\* a course is examined while one skill is already recorded and another is
\* still looked for, and the course would match the recorded skill too
C2_Witness ==
    \E c \in Calls :
        /\ Len(scanned[c]) > 1
        /\ tested[c] # {}
        /\ \E s \in DOMAIN found_courses[c] :
            /\ s \notin tested[c]
            /\ Qualifies(s, CourseAt(scanned[c][Len(scanned[c])]))
            /\ ~Holds(found_courses[c][s], CourseAt(scanned[c][Len(scanned[c])]))

(***************************************************************************)
(* C3: early stop.  Once remaining_skills is empty on page k no GET for a  *)
(* later page is issued, whatever next-page token page k carries; for an   *)
(* empty skill list no GET is issued at all.                               *)
(***************************************************************************)
C3_EarlyStop ==
    \A c \in Calls :
        /\ missing_skills[c] = <<>> => get_log[c] = <<>>
        /\ (remaining_skills[c] = {} /\ Len(scanned[c]) > 0) =>
              /\ Len(get_log[c]) = scanned[c][Len(scanned[c])][1]
              /\ pc[c] \notin {"get", "response", "course"}

\* every skill is resolved on a page that carries a next-page token
C3_Witness ==
    \E c \in Calls :
        /\ pc[c] = "done"
        /\ missing_skills[c] # <<>>
        /\ remaining_skills[c] = {}
        /\ Len(scanned[c]) > 0
        /\ response[c].body.next

(***************************************************************************)
(* C4: the pages requested in one call are 1, 2, ..., k in this order,     *)
(* with k <= 200; page n+1 is requested only after every course of page n  *)
(* has been examined, and no page is requested twice.                      *)
(***************************************************************************)
C4_PagesAscending ==
    \A c \in Calls :
        /\ Len(get_log[c]) <= 200
        /\ \A n \in DOMAIN get_log[c] : get_log[c][n] = n
        /\ LET done == Scanned(c)
           IN  \A n \in DOMAIN get_log[c] :
                  n < Len(get_log[c]) =>
                      \A i \in DOMAIN catalog[n].body.results : <<n, i>> \in done

\* a call that requested 200 pages and returned
C4_Witness ==
    \E c \in Calls : pc[c] = "done" /\ Len(get_log[c]) = 200

\* the last course examined, when the call raised while examining it
FailedAt(c) ==
    IF exc[c] # "none" /\ Len(scanned[c]) > 0
       /\ scanned[c][Len(scanned[c])][1] = page[c]
    THEN {scanned[c][Len(scanned[c])]}
    ELSE {}

\* the courses examined to the end
CleanlyScanned(c) == Scanned(c) \ FailedAt(c)

FirstQualifying(s, P) ==
    CHOOSE pos \in P :
        /\ Qualifies(s, CourseAt(pos))
        /\ \A q \in P : Before(q, pos) => ~Qualifies(s, CourseAt(q))

\* map resolves the skills from the courses at the positions P: its keys are
\* the skills some course of P qualifies for, each with the first such course
ResolvedFrom(map, skills, P) ==
    LET Q == P
    IN  /\ DOMAIN map = {s \in skills : \E pos \in Q : Qualifies(s, CourseAt(pos))}
        /\ \A s \in DOMAIN map : Holds(map[s], CourseAt(FirstQualifying(s, Q)))

EmptyShape == [comprehensive_courses |-> <<>>, individual_courses |-> EmptyMap]

(***************************************************************************)
(* C5: whatever exception the scan raises, get_smart_recommendations does  *)
(* not raise and returns exactly the resolutions recorded before the       *)
(* exception, those from earlier courses of the same page included.        *)
(***************************************************************************)
C5_PartialOnException ==
    \A c \in Calls :
        /\ pc[c] # "raised"
        /\ (pc[c] = "done" /\ exc[c] # "none") =>
              /\ result[c].comprehensive_courses = <<>>
              /\ ResolvedFrom(result[c].individual_courses,
                              Range(missing_skills[c]), CleanlyScanned(c))

\* the second course of a page raised and the first one is in the result
C5_Witness ==
    \E c \in Calls :
        /\ pc[c] = "done"
        /\ exc[c] # "none"
        /\ FailedAt(c) = {<<page[c], 2>>}
        /\ \E s \in DOMAIN result[c].individual_courses :
              Holds(result[c].individual_courses[s], CourseAt(<<page[c], 1>>))

(***************************************************************************)
(* C6: a status other than 200 on page k stops the scan: no course of page *)
(* k is examined, no further page is requested, nothing is raised and the  *)
(* result is the mapping resolved from pages 1..k-1.                       *)
(***************************************************************************)
C6_StopOnStatus ==
    \A c \in Calls :
        (response[c] # NoResponse /\ response[c].status # 200) =>
            /\ pc[c] \in {"response", "return", "done"}
            /\ exc[c] = "none"
            /\ Len(get_log[c]) = page[c]
            /\ \A pos \in Scanned(c) : pos[1] < page[c]
            /\ ResolvedFrom(Mapping(c), Range(missing_skills[c]),
                            {pos \in Positions : pos[1] < page[c]})

\* page 2 answers with another status and carries a course that qualifies
\* for a skill still looked for; page 1 resolved a skill
C6_Witness ==
    \E c \in Calls :
        /\ pc[c] = "done"
        /\ response[c] # NoResponse /\ response[c].status # 200
        /\ page[c] > 1
        /\ DOMAIN result[c].individual_courses # {}
        /\ \E s \in remaining_skills[c] : \E pos \in Positions :
              pos[1] = page[c] /\ Qualifies(s, CourseAt(pos))

(***************************************************************************)
(* C7: when every attempt for page 1 is answered with 500 until the retry  *)
(* budget is exhausted, the call returns the empty result and does not     *)
(* raise.                                                                  *)
(***************************************************************************)
C7_Page1AlwaysFails ==
    \A c \in Calls :
        (/\ page[c] = 1
         /\ exc[c] = "RetryError"
         /\ \A i \in DOMAIN statuses[c] : statuses[c][i] = Resp(500)) =>
            /\ pc[c] # "raised"
            /\ pc[c] = "done" => result[c] = EmptyShape

C7_Witness ==
    \E c \in Calls :
        /\ pc[c] = "done"
        /\ page[c] = 1
        /\ exc[c] = "RetryError"
        /\ missing_skills[c] # <<>>
        /\ Len(statuses[c]) > 1
        /\ \A i \in DOMAIN statuses[c] : statuses[c][i] = Resp(500)

(***************************************************************************)
(* C8 as stated: one page request makes at most 5 GET attempts when every  *)
(* response status is in {429, 500, 502, 503, 504}, and only a response    *)
(* with one of those statuses is followed by another attempt.              *)
(***************************************************************************)
C8_AtMostFiveAttempts ==
    \A c \in Calls :
        /\ (\A i \in DOMAIN statuses[c] :
               /\ statuses[c][i].kind = "response"
               /\ statuses[c][i].status \in {429, 500, 502, 503, 504})
           => Len(statuses[c]) <= 5
        /\ \A i \in DOMAIN statuses[c] :
              (i < Len(statuses[c]) /\ statuses[c][i].kind = "response")
              => statuses[c][i].status \in {429, 500, 502, 503, 504}

(***************************************************************************)
(* C8 amended: one page request makes at most 6 GET attempts (the first    *)
(* one and at most 5 retries); a response is followed by another attempt   *)
(* only if its status is in {429, 500, 502, 503, 504} or it is a 413 with  *)
(* a Retry-After header; the response handed to the scanner never has a    *)
(* status of that list.                                                    *)
(***************************************************************************)
C8_AtMostSixAttempts ==
    \A c \in Calls :
        /\ Len(statuses[c]) <= 6
        /\ \A i \in DOMAIN statuses[c] :
              (i < Len(statuses[c]) /\ statuses[c][i].kind = "response")
              => \/ statuses[c][i].status \in {429, 500, 502, 503, 504}
                 \/ statuses[c][i] = RespRetryAfter(413)
        /\ response[c] # NoResponse =>
              /\ response[c].status \notin {429, 500, 502, 503, 504}
              /\ response[c].status = statuses[c][Len(statuses[c])].status

\* six attempts were made and each met a status of the list
C8_Witness ==
    \E c \in Calls :
        /\ Len(statuses[c]) = 6
        /\ \A i \in DOMAIN statuses[c] :
              /\ statuses[c][i].kind = "response"
              /\ statuses[c][i].status \in {429, 500, 502, 503, 504}

(***************************************************************************)
(* C9: with a credential missing or empty the call returns the empty       *)
(* result for every skill list, creates no session, issues no request and  *)
(* does not raise.                                                         *)
(***************************************************************************)
C9_NoCredentials ==
    \A c \in Calls :
        (\E key \in DOMAIN config : config[key] \in {"empty", "none"}) =>
            /\ pc[c] \in {"idle", "done"}
            /\ ~session[c]
            /\ get_log[c] = <<>>
            /\ statuses[c] = <<>>
            /\ pc[c] = "done" => result[c] = EmptyShape

\* one credential is the empty string, and skills were asked for
C9_Witness ==
    \E c \in Calls :
        /\ pc[c] = "done"
        /\ missing_skills[c] # <<>>
        /\ config["CLIENT_SECRET"] = "empty"
        /\ \A key \in DOMAIN config \ {"CLIENT_SECRET"} : config[key] = "set"

(***************************************************************************)
(* C10: language filter "en".  A course is recorded for a skill only if    *)
(* its locale code starts with "en", letter case ignored; a skill whose    *)
(* title-matching course fails the filter stays in remaining_skills and is *)
(* resolved by the first later course that passes both tests.              *)
(***************************************************************************)
EnglishLocale(course) ==
    course.locale \in {LocaleDict(Str(S_en_US)), LocaleDict(Str(S_EN_GB))}

C10_LanguageFilter ==
    \A c \in Calls : \A s \in Range(missing_skills[c]) :
        LET clean == CleanlyScanned(c)
            english == {pos \in clean :
                          TitleMatches(s, CourseAt(pos)) /\ EnglishLocale(CourseAt(pos))}
        IN  /\ s \in DOMAIN Mapping(c) <=> english # {}
            /\ (HasCredentials(config) /\ pc[c] # "idle" /\ english = {})
                  => s \in remaining_skills[c]
            /\ s \in DOMAIN Mapping(c) =>
                  \E pos \in english :
                      /\ Holds(Mapping(c)[s], CourseAt(pos))
                      /\ \A q \in english : ~Before(q, pos)

\* a skill met a matching fr_FR course first and was resolved by a later
\* EN_GB course
C10_Witness ==
    \E c \in Calls :
        /\ pc[c] = "done"
        /\ \E s \in DOMAIN result[c].individual_courses : \E a, b \in Scanned(c) :
              /\ Before(a, b)
              /\ TitleMatches(s, CourseAt(a))
              /\ CourseAt(a).locale = LocaleDict(Str(S_fr_FR))
              /\ CourseAt(b).locale = LocaleDict(Str(S_EN_GB))
              /\ Holds(result[c].individual_courses[s], CourseAt(b))

\* the locale of the course is absent, not an object, or an object whose
\* locale code is missing or not a string
MalformedLocale(course) ==
    \/ course.locale.k \in {"absent", "nondict"}
    \/ course.locale.k = "dict" /\ course.locale.code.k # "str"

(***************************************************************************)
(* C11: a course whose title matches and whose locale is absent or         *)
(* malformed is skipped under the language filter: it is recorded for no   *)
(* skill, examining it raises nothing, the scan goes on with the courses   *)
(* and pages that follow, and a later course that qualifies resolves the   *)
(* skill.                                                                  *)
(***************************************************************************)
C11_MalformedLocaleSkipped ==
    \A c \in Calls : \A pos \in Scanned(c) :
        LET course == CourseAt(pos)
        IN  (course.title.k = "str" /\ MalformedLocale(course)) =>
                /\ pos \notin FailedAt(c)
                /\ \A s \in DOMAIN Mapping(c) : ~Holds(Mapping(c)[s], course)
                /\ \A s \in Range(missing_skills[c]) :
                      (\E q \in CleanlyScanned(c) :
                          Before(pos, q) /\ Qualifies(s, CourseAt(q)))
                      => s \in DOMAIN Mapping(c)

(***************************************************************************)
(* C12: end of catalog.  A page with an empty result list stops the scan   *)
(* at once, whatever next-page token it carries; every page before the     *)
(* last one requested had results and a token; and when the scan stops     *)
(* for want of a token (nothing raised), every course of that page has     *)
(* been examined, and tested against the skills still remaining, unless    *)
(* no skill remained.                                                      *)
(***************************************************************************)
C12_EndOfCatalog ==
    \A c \in Calls :
        LET body == response[c].body
            here == {pos \in Scanned(c) : pos[1] = page[c]}
        IN  /\ (response[c].status = 200 /\ body.kind = "dict" /\ Len(body.results) = 0)
                  => /\ pc[c] \in {"response", "return", "done"}
                     /\ Len(get_log[c]) = page[c]
                     /\ here = {}
            /\ \A n \in DOMAIN get_log[c] :
                  n < Len(get_log[c]) =>
                      catalog[n].body.next /\ Len(catalog[n].body.results) > 0
            /\ (/\ pc[c] \in {"return", "done"}
                /\ exc[c] = "none"
                /\ response[c].status = 200 /\ body.kind = "dict"
                /\ Len(body.results) > 0 /\ ~body.next)
                  => /\ Len(get_log[c]) = page[c]
                     /\ remaining_skills[c] # {} =>
                           /\ here = {<<page[c], i>> : i \in DOMAIN body.results}
                           /\ remaining_skills[c] \subseteq tested[c]

\* the last page has no token and two courses; the second one resolved a
\* skill and another skill is still looked for
C12_Witness ==
    \E c \in Calls :
        /\ pc[c] = "done"
        /\ exc[c] = "none"
        /\ response[c].status = 200
        /\ ~response[c].body.next
        /\ Len(response[c].body.results) = 2
        /\ remaining_skills[c] # {}
        /\ \E s \in DOMAIN result[c].individual_courses :
              Holds(result[c].individual_courses[s], CourseAt(<<page[c], 2>>))

(***************************************************************************)
(* C13: the keys of individual_courses are input skills; a skill is a key  *)
(* exactly when some course examined to its end before the scan stopped    *)
(* has a title that matches the skill and a locale that passes the filter; *)
(* a call that leaves skills unmatched returns normally.                   *)
(***************************************************************************)
C13_KeysAreMatchedSkills ==
    \A c \in Calls :
        LET examined == CleanlyScanned(c)
        IN  /\ DOMAIN Mapping(c) \subseteq Range(missing_skills[c])
            /\ \A s \in Range(missing_skills[c]) :
                  s \in DOMAIN Mapping(c) <=>
                      \E pos \in examined : Qualifies(s, CourseAt(pos))
            /\ pc[c] # "raised"
            /\ pc[c] = "done" => result[c].comprehensive_courses = <<>>

\* a call for two skills returned one of them, nothing was raised, and a
\* course was examined
C13_Witness ==
    \E c \in Calls :
        /\ pc[c] = "done"
        /\ exc[c] = "none"
        /\ Scanned(c) # {}
        /\ DOMAIN result[c].individual_courses # {}
        /\ Range(missing_skills[c]) \ DOMAIN result[c].individual_courses # {}

(***************************************************************************)
(* C14: idempotence.  Two successive calls with the same skill list        *)
(* against the same catalog return identical results, request the same     *)
(* pages and end on the same exception, if any; every call starts from     *)
(* page 1 with an empty mapping, a session of its own and all the skills   *)
(* of its list to look for.                                                *)
(***************************************************************************)
C14_Idempotent ==
    /\ \A c1, c2 \in Calls :
          (pc[c1] = "done" /\ pc[c2] = "done"
           /\ missing_skills[c1] = missing_skills[c2])
              => /\ result[c1] = result[c2]
                 /\ exc[c1] = exc[c2]
                 /\ get_log[c1] = get_log[c2]
    /\ \A c \in Calls :
          (pc[c] = "while" /\ get_log[c] = <<>>)
              => /\ page[c] = 1
                 /\ found_courses[c] = EmptyMap
                 /\ remaining_skills[c] = Range(missing_skills[c])
                 /\ session[c]

\* the first call resolved a skill and then ended on an exception; the
\* second call was made with the same list and has returned
C14_Witness ==
    /\ ncalls = 2
    /\ pc[1] = "done" /\ pc[2] = "done"
    /\ missing_skills[1] = missing_skills[2]
    /\ exc[1] # "none"
    /\ DOMAIN result[1].individual_courses # {}
    /\ remaining_skills[1] # {}

(***************************************************************************)
(* C15: the result depends only on the set of skills asked for.  Two calls *)
(* whose lists hold the same skills, in another order or with duplicates,  *)
(* return the same result against the same catalog, in whatever order each *)
(* call iterates its remaining skills over a course.                       *)
(***************************************************************************)
C15_SetOfSkillsOnly ==
    \A c1, c2 \in Calls :
        (pc[c1] = "done" /\ pc[c2] = "done"
         /\ Range(missing_skills[c1]) = Range(missing_skills[c2]))
            => result[c1] = result[c2]

\* the two lists differ in order and one repeats a skill; one course was
\* recorded for both skills, so both were iterated over it
C15_Witness ==
    /\ ncalls = 2
    /\ pc[1] = "done" /\ pc[2] = "done"
    /\ missing_skills[1] = <<S_react, S_nodejs>>
    /\ missing_skills[2] = <<S_nodejs, S_react, S_nodejs>>
    /\ DOMAIN result[2].individual_courses = {S_react, S_nodejs}
    /\ result[2].individual_courses[S_react] = result[2].individual_courses[S_nodejs]

(***************************************************************************)
(* C27: partition invariant.  From line 153 on, after every step of the    *)
(* scan and so after each record processed, remaining_skills and the keys  *)
(* of found_courses are disjoint and their union is the set of the input   *)
(* skills; found_courses only grows (its entries stay) and                 *)
(* remaining_skills only shrinks.                                          *)
(***************************************************************************)
Partitioned(c) ==
    /\ remaining_skills[c] \cap DOMAIN found_courses[c] = {}
    /\ remaining_skills[c] \cup DOMAIN found_courses[c] = Range(missing_skills[c])

C27_Partition ==
    [][\A c \in Calls :
          session'[c] =>
            /\ Partitioned(c)'
            /\ session[c] =>
                 /\ remaining_skills'[c] \subseteq remaining_skills[c]
                 /\ DOMAIN found_courses[c] \subseteq DOMAIN found_courses'[c]
                 /\ \A s \in DOMAIN found_courses[c] :
                       found_courses'[c][s] = found_courses[c][s]]_vars

\* a record has been processed that resolved one skill of two
C27_Witness ==
    \E c \in Calls :
        /\ pc[c] = "course"
        /\ scanned[c] # <<>>
        /\ remaining_skills[c] # {}
        /\ DOMAIN found_courses[c] # {}
        /\ Partitioned(c)

(***************************************************************************)
(* C25: termination.  Provided each HTTP request returns a response or     *)
(* raises, a call that was made comes to its end, after at most 200 page   *)
(* requests, for every catalog, the endless one whose pages match no skill *)
(* included.                                                               *)
(***************************************************************************)
C25_Terminates ==
    /\ [](Len(get_log[1]) <= MAX_PAGES)
    /\ (pc[1] # "idle") ~> (pc[1] \in {"done", "raised"})

\* the call returned after 200 requests with its skills unresolved
C25_Witness ==
    /\ pc[1] = "done"
    /\ Len(get_log[1]) = MAX_PAGES
    /\ \A i \in DOMAIN catalog : catalog[i] = FillerPage
    /\ remaining_skills[1] # {}
    /\ result[1] = Recommendations(EmptyMap)

(***************************************************************************)
(* C26: batch scan equals per-skill scan.  For a catalog of well-formed    *)
(* records and a skill s of the list S, the call on S and the call on [s]  *)
(* resolve s to the same course, and s is absent from one result exactly   *)
(* when it is absent from the other.                                       *)
(***************************************************************************)
WellFormedCatalog == \A pos \in Positions : CourseAt(pos) \in GoodCourses

C26_BatchEqualsPerSkill ==
    (/\ ncalls = 2
     /\ pc[1] = "done" /\ pc[2] = "done"
     /\ Len(missing_skills[2]) = 1
     /\ missing_skills[2][1] \in Range(missing_skills[1])
     /\ WellFormedCatalog)
        => LET s == missing_skills[2][1]
               batch == result[1].individual_courses
               single == result[2].individual_courses
           IN  /\ s \in DOMAIN batch <=> s \in DOMAIN single
               /\ s \in DOMAIN batch => batch[s] = single[s]

\* the batch went on to a later page for its other skill, the call on [s]
\* stopped at the course that resolved s
C26_Witness ==
    /\ ncalls = 2
    /\ pc[1] = "done" /\ pc[2] = "done"
    /\ WellFormedCatalog
    /\ Len(missing_skills[2]) = 1
    /\ Cardinality(Range(missing_skills[1])) = 2
    /\ DOMAIN result[1].individual_courses = Range(missing_skills[1])
    /\ DOMAIN result[2].individual_courses = Range(missing_skills[2])
    /\ Len(get_log[2]) < Len(get_log[1])

(***************************************************************************)
(* C28: concurrent calls do not interfere.  Call 2 runs interleaved with   *)
(* call 3 on the list call 1 ran alone: at every moment what call 2 has    *)
(* requested, examined and recorded is what call 1 did up to the same      *)
(* point, and call 2 returns the result call 1 returned.                   *)
(***************************************************************************)
IsPrefix(a, b) == Len(a) <= Len(b) /\ SubSeq(b, 1, Len(a)) = a

C28_NoInterference ==
    (/\ ncalls = 3
     /\ pc[1] = "done"
     /\ pc[2] # "idle"
     /\ missing_skills[2] = missing_skills[1])
        => /\ IsPrefix(get_log[2], get_log[1])
           /\ IsPrefix(scanned[2], scanned[1])
           /\ \A s \in DOMAIN found_courses[2] :
                 /\ s \in DOMAIN found_courses[1]
                 /\ found_courses[2][s] = found_courses[1][s]
           /\ pc[2] = "done" => result[2] = result[1]

\* calls 2 and 3 are both in the middle of their scans, on different pages
\* and for different lists
C28_Witness ==
    /\ ncalls = 3
    /\ pc[1] = "done"
    /\ pc[2] = "course" /\ pc[3] = "course"
    /\ page[2] # page[3]
    /\ missing_skills[3] # missing_skills[2]
    /\ DOMAIN found_courses[3] # {}
    /\ IsPrefix(scanned[2], scanned[1])

Returned == match_call.pc = "returned"

\* the lowercased query and title of the call
LQ == Lower(match_call.query)
LT == Lower(match_call.title)

\* the exclusion rule applies to the call
ExclusionApplies == match_call.search_term = S_express /\ Contains(LT, S_adobe)

\* the query ends in "js", is no alias key and leaves a base of more than 2
\* characters
StrippingApplies ==
    /\ EndsWith(LQ, S_js)
    /\ LQ \notin DOMAIN SKILL_ALIAS_MAP
    /\ Len(LQ) - 2 > 2

StrippedBase == SubSeq(LQ, 1, Len(LQ) - 2)

(***************************************************************************)
(* C16: exclusion rule.  The queries whose search term is "express" are    *)
(* "express" and "expressjs" in any letter case; for them a title that     *)
(* contains "adobe" in any letter case is never matched, and a title       *)
(* without "adobe" that contains the word "express" is matched.            *)
(***************************************************************************)
C16_ExclusionRule ==
    Returned =>
        /\ match_call.search_term = S_express <=> LQ \in {S_express, S_expressjs}
        /\ (LQ \in {S_express, S_expressjs} /\ Contains(LT, S_adobe))
              => ~match_call.value
        /\ (LQ \in {S_express, S_expressjs} /\ ~Contains(LT, S_adobe)
            /\ WordSearch(S_express, LT))
              => match_call.value

\* "ExpressJS" against a title with "Adobe" and the whole word "Express"
C16_Witness ==
    /\ Returned
    /\ match_call.query = Q_ExpressJS
    /\ match_call.title = MT_adobe
    /\ WordSearch(S_express, LT)
    /\ ~match_call.value

(***************************************************************************)
(* C17 as stated: when neither the word-boundary match of the search term  *)
(* nor the suffix-stripped base match succeeds, _match_skill returns true  *)
(* exactly when the search term is a substring of the lowercased title.    *)
(***************************************************************************)
C17_SearchTermSubstringOnly ==
    (Returned /\ ~WordSearch(match_call.search_term, LT)
     /\ ~(StrippingApplies /\ WordSearch(StrippedBase, LT)))
        => (match_call.value <=> Contains(LT, match_call.search_term))

(***************************************************************************)
(* C17 amended: when neither the word-boundary match of the search term    *)
(* nor the suffix-stripped base match succeeds, _match_skill returns true  *)
(* exactly when the exclusion rule does not apply and the lowercased title *)
(* contains the lowercased original query or the search term.              *)
(***************************************************************************)
C17_QueryOrSearchTermSubstring ==
    (Returned /\ ~WordSearch(match_call.search_term, LT)
     /\ ~(StrippingApplies /\ WordSearch(StrippedBase, LT)))
        => (match_call.value <=>
              /\ ~ExclusionApplies
              /\ (Contains(LT, LQ) \/ Contains(LT, match_call.search_term)))

\* "vuejs" against "VueJS": the title holds the query, not the term "vue.js"
C17_Witness ==
    /\ Returned
    /\ match_call.query = S_vuejs
    /\ match_call.search_term = S_vue_js
    /\ ~WordSearch(match_call.search_term, LT)
    /\ ~Contains(LT, match_call.search_term)
    /\ Contains(LT, LQ)
    /\ match_call.value

(***************************************************************************)
(* C18 as stated: the query is lowercased and, if it is a key of the alias *)
(* table, replaced by its canonical term once ("nodejs" gives "node.js",   *)
(* not "node"); any other query is used unchanged; for a key, a title that *)
(* contains the canonical term as a whole word is matched.                 *)
(***************************************************************************)
C18_AliasResolution ==
    Returned =>
        /\ match_call.q_raw = LQ
        /\ match_call.search_term =
              (IF LQ \in DOMAIN SKILL_ALIAS_MAP THEN SKILL_ALIAS_MAP[LQ] ELSE LQ)
        /\ LQ = S_nodejs => match_call.search_term = S_node_js
        /\ (LQ \in DOMAIN SKILL_ALIAS_MAP /\ WordSearch(match_call.search_term, LT))
              => match_call.value

(***************************************************************************)
(* C18 amended: as stated, except that a title that contains the canonical *)
(* term as a whole word is matched unless the term is "express" and the    *)
(* title contains "adobe" (the exclusion rule).                            *)
(***************************************************************************)
C18_AliasResolutionButExcluded ==
    Returned =>
        /\ match_call.q_raw = LQ
        /\ match_call.search_term =
              (IF LQ \in DOMAIN SKILL_ALIAS_MAP THEN SKILL_ALIAS_MAP[LQ] ELSE LQ)
        /\ LQ = S_nodejs => match_call.search_term = S_node_js
        /\ (LQ \in DOMAIN SKILL_ALIAS_MAP /\ WordSearch(match_call.search_term, LT)
            /\ ~(match_call.search_term = S_express /\ Contains(LT, S_adobe)))
              => match_call.value

\* "NodeJS" against a title with the word "node" and no "node.js": a second
\* lookup would have matched it
C18_Witness ==
    /\ Returned
    /\ match_call.query = Q_NodeJS
    /\ match_call.search_term = S_node_js
    /\ WordSearch(S_node, LT)
    /\ ~match_call.value

(***************************************************************************)
(* C19: suffix stripping.  When the lowercased query ends in "js", is no   *)
(* alias key and leaves a base of more than 2 characters, a title with the *)
(* base as a whole word is matched; for every other query the base is      *)
(* never tried: the result is decided by the search term and the query     *)
(* alone.                                                                  *)
(***************************************************************************)
C19_SuffixStripping ==
    Returned =>
        /\ (StrippingApplies /\ WordSearch(StrippedBase, LT)) => match_call.value
        /\ ~StrippingApplies =>
              (match_call.value <=>
                  /\ ~ExclusionApplies
                  /\ (Contains(LT, LQ) \/ Contains(LT, match_call.search_term)))

\* "reactjs" against a title with the word "react" and no "reactjs"
C19_Witness ==
    /\ Returned
    /\ match_call.query = Q_reactjs
    /\ WordSearch(S_react, LT)
    /\ ~Contains(LT, LQ)
    /\ match_call.value

(***************************************************************************)
(* C20: _match_skill returns false when the lowercased title contains      *)
(* neither the search term, nor the lowercased query, nor (when suffix     *)
(* stripping applies) the stripped base.                                   *)
(***************************************************************************)
C20_NoSubstringNoMatch ==
    (/\ Returned
     /\ ~Contains(LT, match_call.search_term)
     /\ ~Contains(LT, LQ)
     /\ ~(StrippingApplies /\ Contains(LT, StrippedBase)))
        => ~match_call.value

\* "golang" against "Introduction to Python"
C20_Witness ==
    /\ Returned
    /\ match_call.query = Q_golang
    /\ match_call.title = MT_python
    /\ ~match_call.value

(***************************************************************************)
(* C30: the word-boundary test never narrows the match.  Unless the        *)
(* exclusion rule applies, _match_skill returns true for every title that  *)
(* contains the search term or the lowercased query as a substring, also   *)
(* inside a longer word.                                                   *)
(***************************************************************************)
C30_SubstringAlwaysMatches ==
    (/\ Returned
     /\ ~ExclusionApplies
     /\ (Contains(LT, match_call.search_term) \/ Contains(LT, LQ)))
        => match_call.value

\* "java" against "JavaScript Basics": no whole word "java" in the title
C30_Witness ==
    /\ Returned
    /\ match_call.query = Q_java
    /\ match_call.title = MT_javascript
    /\ ~WordSearch(match_call.search_term, LT)
    /\ match_call.value

(***************************************************************************)
(* Vocabulary of the properties of load_config                             *)
(***************************************************************************)
Loaded == load_call.pc \in {"returned", "initialised"}

\* all four environment variables are present and non-empty
AllEnvSet == \A n \in EnvNames : Truthy(load_call.env[n])

SomeEnvSet == \E n \in EnvNames : Truthy(load_call.env[n])

\* the configuration holds a value that came from the environment
FromEnv(cfg) == \E k \in ConfigKeys : cfg.members[k] = Str(S_env)

\* all four fields present and non-empty
Complete(cfg) == cfg.t = "dict" /\ \A k \in ConfigKeys : Truthy(cfg.members[k])

\* the JSON object a candidate file holds, the empty configuration if it
\* holds none that can be read
FileObject(file) ==
    IF file.stat = "ok" /\ file.open = "ok"
         /\ JsonLoads(file.text).kind = "return"
         /\ JsonLoads(file.text).value.t = "dict"
    THEN JsonLoads(file.text).value
    ELSE EmptyConfig

FallbackYield == {FileObject(load_call.primary), FileObject(load_call.cwd), EmptyConfig}

(***************************************************************************)
(* C21: load_config uses the environment-derived credentials if and only   *)
(* if all four environment variables are present and non-empty; when one   *)
(* is missing or empty, no environment value is in the configuration       *)
(* returned, which is what a fallback file holds or the empty one.         *)
(***************************************************************************)
C21_EnvAllOrNothing ==
    Loaded =>
        /\ AllEnvSet => load_call.outcome.value = JDict(env_config(load_call.env))
        /\ ~AllEnvSet => /\ ~FromEnv(load_call.outcome.value)
                         /\ load_call.outcome.value \in FallbackYield

\* three of the four variables are set and the file's object is returned
C21_Witness ==
    /\ Loaded
    /\ SomeEnvSet /\ ~AllEnvSet
    /\ load_call.primary = FileOf(TX_full)
    /\ load_call.outcome.value = FileObject(load_call.primary)
    /\ Complete(load_call.outcome.value)

(***************************************************************************)
(* C22 as stated: load_config yields either a configuration with all four  *)
(* fields present and non-empty or the empty configuration.                *)
(***************************************************************************)
C22_CompleteOrEmpty ==
    Loaded => \/ Complete(load_call.outcome.value)
              \/ load_call.outcome.value = EmptyConfig

(***************************************************************************)
(* C22 amended: load_config yields a configuration with all four fields    *)
(* non-empty taken from the environment, or the JSON object of a fallback  *)
(* file exactly as read, or the empty configuration; a configuration that  *)
(* lacks one of the four fields leaves the module without credentials.     *)
(***************************************************************************)
C22_EnvOrFileObjectOrEmpty ==
    /\ Loaded =>
          \/ /\ AllEnvSet
             /\ Complete(load_call.outcome.value)
             /\ load_call.outcome.value = JDict(env_config(load_call.env))
          \/ /\ ~AllEnvSet
             /\ load_call.outcome.value \in FallbackYield
    /\ load_call.pc = "initialised" =>
          (HasCredentials(config) <=> Complete(load_call.outcome.value))

\* the file holds two of the four keys and is returned as it is
C22_Witness ==
    /\ load_call.pc = "initialised"
    /\ ~AllEnvSet
    /\ load_call.primary = FileOf(TX_partial)
    /\ load_call.outcome.value = JsonLoads(TX_partial).value
    /\ ~Complete(load_call.outcome.value)
    /\ load_call.outcome.value # EmptyConfig
    /\ ~HasCredentials(config)

(***************************************************************************)
(* C23 as stated: load_config never raises.                                *)
(***************************************************************************)
C23_NeverRaises == load_call.pc # "raised"

(***************************************************************************)
(* Vocabulary of the properties of parse_json_list_env                     *)
(***************************************************************************)
ParseEnded == parse_call.pc \in {"returned", "raised"}

\* the text is a valid JSON array
ValidArray(text) ==
    /\ JsonLoads(text).kind = "return"
    /\ JsonLoads(text).value.t = "list"

EnvIsArray == parse_call.env_value.set /\ ValidArray(parse_call.env_value.text)

(***************************************************************************)
(* C24: parse_json_list_env returns the parsed environment value when the  *)
(* variable is set to a valid JSON array, the empty array included; it     *)
(* returns the parsed default when the variable is unset, not valid JSON   *)
(* or JSON that is no array; it raises ValueError exactly when the default *)
(* is not a valid JSON array, whatever the variable holds.                 *)
(***************************************************************************)
C24_ParseJsonListEnv ==
    ParseEnded =>
        /\ parse_call.pc = "raised" <=> ~ValidArray(parse_call.default)
        /\ parse_call.pc = "raised" => parse_call.outcome.exc = "ValueError"
        /\ (ValidArray(parse_call.default) /\ EnvIsArray) =>
              parse_call.outcome =
                  Returns(JsonLoads(parse_call.env_value.text).value)
        /\ (ValidArray(parse_call.default) /\ ~EnvIsArray) =>
              parse_call.outcome = Returns(JsonLoads(parse_call.default).value)

\* the variable holds a JSON object: the default is returned
C24_Witness ==
    /\ parse_call.pc = "returned"
    /\ parse_call.env_value = SetTo(TX_object)
    /\ parse_call.default = TX_list_default
    /\ parse_call.outcome.value = JList(<<"default">>)

====
